---- MODULE Spec2Model ----
(***************************************************************************)
(* Model of pipeline_dengue.py: the module-level configuration check, the  *)
(* three stage functions extrair_dados, transformar_dados, carregar_dados  *)
(* and the __main__ block that chains them.                                *)
(*                                                                         *)
(* A DataFrame is a record [isNone, rows]: isNone stands for Python's None *)
(* and rows is the sequence of its rows in index order.  A raw cell that   *)
(* astype(int) reads is a record [ok, v]: ok says whether the cell can be  *)
(* coerced and v is the integer it coerces to.  A raw date is the triple   *)
(* of numbers its text holds; pd.to_datetime(errors='coerce') turns it     *)
(* into a date record or into NaT.                                         *)
(*                                                                         *)
(* The file is a cell script ("# %%"): once the configuration cell has     *)
(* run, the entry cell (__main__) can be run, or carregar_dados can be     *)
(* called on a DataFrame of the caller's choosing.                         *)
(***************************************************************************)
EXTENDS Integers, Sequences, FiniteSets, TLC

VARIABLES env, pc, caller, dados_brutos, dados_tratados, carga_df, exc,
          log, table, table0, held, opened, writeConn, pkConn, http,
          cargaCalled, pending, pkFailed

vars == <<env, pc, caller, dados_brutos, dados_tratados, carga_df, exc,
          log, table, table0, held, opened, writeConn, pkConn, http,
          cargaCalled, pending, pkFailed>>

\* Largest number of rows of a DataFrame drawn as an input.
MaxRows == 2

----------------------------------------------------------------------------
\* Values

ConfigNames == {"DB_HOST", "DB_DATABASE", "DB_USER", "DB_PASSWORD"}

\* What os.getenv gives for a name: None, the empty string, or a value.
EnvValues == {"None", "", "v"}

\* Python truthiness of an os.getenv result, as all([...]) reads it.
Truthy(x) == x \notin {"None", ""}

None == [isNone |-> TRUE, rows |-> <<>>]

DataFrame(rs) == [isNone |-> FALSE, rows |-> rs]

\* df.empty, read only where df is not None.
empty(df) == Len(df.rows) = 0

Num(n) == [ok |-> TRUE, v |-> n]

Bad == [ok |-> FALSE, v |-> 0]

NaT == [y |-> 0, m |-> 0, d |-> 0]

RawDates == {<<2023, 1, 2>>, <<2023, 1, 1>>, <<2023, 2, 30>>}

Cities == {"Rio de Janeiro", "Niteroi"}

RawCodes == {Num(3304557), Bad}

RawCases == {Num(10), Num(-3), Bad}

\* Rows of the source CSV: every RJ row over the field values above, and
\* one row of another state.
RJRows ==
    {[state |-> "RJ", date |-> dt, city |-> c, city_ibge_code |-> k, cases |-> n] :
        dt \in RawDates, c \in Cities, k \in RawCodes, n \in RawCases}

SPRow ==
    [state |-> "SP", date |-> <<2023, 1, 2>>, city |-> "Sao Paulo",
     city_ibge_code |-> Num(3550308), cases |-> Num(5)]

RawRows == RJRows \cup {SPRow}

SeqsUpTo(S, n) == UNION {[1..k -> S] : k \in 0..n}

RawFrames == {DataFrame(rs) : rs \in SeqsUpTo(RawRows, MaxRows)}

----------------------------------------------------------------------------
\* Calendar arithmetic of the datetime values

IsLeap(y) == (y % 4 = 0) /\ ((y % 100 # 0) \/ (y % 400 = 0))

DaysInMonth(y, m) ==
    IF m = 2 THEN (IF IsLeap(y) THEN 29 ELSE 28)
    ELSE IF m \in {4, 6, 9, 11} THEN 30 ELSE 31

RECURSIVE DaysBeforeMonth(_, _)
DaysBeforeMonth(y, m) ==
    IF m <= 1 THEN 0 ELSE DaysBeforeMonth(y, m - 1) + DaysInMonth(y, m - 1)

DaysBeforeYear(y) ==
    365 * (y - 1) + ((y - 1) \div 4) - ((y - 1) \div 100) + ((y - 1) \div 400)

\* Proleptic Gregorian ordinal of a date, day 1 being 0001-01-01.
Ordinal(y, m, d) == DaysBeforeYear(y) + DaysBeforeMonth(y, m) + d

\* Ordinal of the Monday that starts ISO week 1 of year y.
IsoWeek1Monday(y) ==
    LET firstday == Ordinal(y, 1, 1)
        firstweekday == (firstday + 6) % 7
        monday == firstday - firstweekday
    IN  IF firstweekday > 3 THEN monday + 7 ELSE monday

\* ISO-8601 week number of a date.
IsoWeek(dt) ==
    LET today == Ordinal(dt.y, dt.m, dt.d)
        w == (today - IsoWeek1Monday(dt.y)) \div 7
    IN  IF today < IsoWeek1Monday(dt.y)
        THEN ((today - IsoWeek1Monday(dt.y - 1)) \div 7) + 1
        ELSE IF w >= 52 /\ today >= IsoWeek1Monday(dt.y + 1) THEN 1
        ELSE w + 1

\* pd.to_datetime(..., errors='coerce') on one cell.
to_datetime(raw) ==
    IF raw[2] \in 1..12 /\ raw[3] >= 1 /\ raw[3] <= DaysInMonth(raw[1], raw[2])
    THEN [y |-> raw[1], m |-> raw[2], d |-> raw[3]]
    ELSE NaT

----------------------------------------------------------------------------
\* transformar_dados

\* What a call gives back: the exception that escaped it, or its value.
Raise(e) == [exc |-> e, df |-> None, log |-> <<>>]

Return(df) == [exc |-> "none", df |-> df, log |-> <<>>]

\* The same outcome, with the lines logged before it put in front.
AfterLog(lines, r) == [r EXCEPT !.log = lines \o @]

\* df[df['state'] == 'RJ']
FiltrarRJ(rs) == SelectSeq(rs, LAMBDA r : r.state = "RJ")

\* The RJ filter without its check for an empty result.
SemDadosRJ_nunca(df_rj) == FALSE

\* df_rj.empty
SemDadosRJ(df_rj) == Len(df_rj) = 0

\* The projection on the four columns and their renaming.
Renomear(r) ==
    [data_notificacao |-> r.date, cidade |-> r.city,
     codigo_ibge |-> r.city_ibge_code, casos_confirmados |-> r.cases]

\* Series.astype(int) succeeds only if every cell of the column coerces.
AstypeOk(rs, col) == \A i \in 1..Len(rs) : rs[i][col].ok

CorrigirTipos(r) ==
    [data_notificacao |-> to_datetime(r.data_notificacao), cidade |-> r.cidade,
     codigo_ibge |-> r.codigo_ibge.v, casos_confirmados |-> r.casos_confirmados.v]

\* dropna(subset=['data_notificacao'])
dropna(rs) == SelectSeq(rs, LAMBDA r : r.data_notificacao # NaT)

\* The filter on negative counts, applied only if some count is negative.
RemoverNegativos(rs) ==
    IF \E i \in 1..Len(rs) : rs[i].casos_confirmados < 0
    THEN SelectSeq(rs, LAMBDA r : r.casos_confirmados >= 0)
    ELSE rs

\* Columns of the frame Series.dt.isocalendar() returns, and the attribute
\* the code reads from it.  Attribute access on a DataFrame resolves to a
\* column of that name and raises AttributeError when there is none.
IsoCalendarColumns == {"year", "week", "day"}

AtributoSemana == "weeh"

CriarColunas(r) ==
    [data_notificacao |-> r.data_notificacao, cidade |-> r.cidade,
     codigo_ibge |-> r.codigo_ibge, casos_confirmados |-> r.casos_confirmados,
     ano |-> r.data_notificacao.y, mes |-> r.data_notificacao.m,
     semana_epidemiologica |-> IsoWeek(r.data_notificacao)]

\* drop_duplicates(): a row goes when an earlier row equals it in every
\* column; the first occurrence stays.
drop_duplicates(rs) ==
    LET keep(i) == \A j \in 1..(i - 1) : rs[j] # rs[i]
        F[i \in 0..Len(rs)] ==
            IF i = 0 THEN <<>>
            ELSE IF keep(i) THEN Append(F[i - 1], rs[i]) ELSE F[i - 1]
    IN  F[Len(rs)]

\* Lines 117-145 with the null dates dropped before the integer coercion.
Limpar_dropna_primeiro(ren) ==
    LET semNulos == SelectSeq(ren, LAMBDA r : to_datetime(r.data_notificacao) # NaT)
    IN  IF ~AstypeOk(semNulos, "codigo_ibge") \/ ~AstypeOk(semNulos, "casos_confirmados")
        THEN Raise("ValueError")
        ELSE Raise("AttributeError")

\* Lines 117-145: type correction, the two drops, the derived columns and
\* the removal of duplicates.
Limpar(ren) ==
    IF ~AstypeOk(ren, "codigo_ibge") THEN Raise("ValueError")
    ELSE IF ~AstypeOk(ren, "casos_confirmados") THEN Raise("ValueError")
    ELSE LET tipados == [i \in 1..Len(ren) |-> CorrigirTipos(ren[i])]
             semNulos == dropna(tipados)
             validos == RemoverNegativos(semNulos)
             aviso == IF validos # semNulos
                      THEN <<"Atencao: casos confirmados negativos">> ELSE <<>>
         IN  AfterLog(<<"Tipos de dados corrigidos">> \o aviso,
                 IF AtributoSemana \notin IsoCalendarColumns
                 THEN Raise("AttributeError")
                 ELSE AfterLog(<<"Novas colunas criadas", "duplicados removidos",
                                 "Processo de transformacao concluido">>,
                          Return(DataFrame(drop_duplicates(
                              [i \in 1..Len(validos) |-> CriarColunas(validos[i])])))))

transformar_dados(df) ==
    IF df.isNone \/ empty(df)
    THEN AfterLog(<<"Dataframe de entrada esta vazio ou nulo">>, Return(None))
    ELSE LET df_rj == FiltrarRJ(df.rows)
         IN  AfterLog(<<"Iniciando processo de transformacao">>,
                 IF SemDadosRJ(df_rj)
                 THEN AfterLog(<<"Nenhum dado encontrado para RJ">>, Return(None))
                 ELSE AfterLog(<<"Dados filtrados", "Colunas selecionadas">>,
                          Limpar([i \in 1..Len(df_rj) |-> Renomear(df_rj[i])])))

----------------------------------------------------------------------------
\* The database

\* Connections of the engine's pool: the one the with statement of
\* carregar_dados checks out, and the one DataFrame.to_sql checks out when
\* it is handed the engine.
WithConn == "connection"

ToSqlConn == "to_sql"

NoConn == "none"

NoTable == [exists |-> FALSE, rows |-> <<>>, pk |-> FALSE]

Written(rs) == [exists |-> TRUE, rows |-> rs, pk |-> FALSE]

Keyed(t) == [t EXCEPT !.pk = TRUE]

CleanRow(dt, c, n) ==
    CriarColunas([data_notificacao |-> to_datetime(dt), cidade |-> c,
                  codigo_ibge |-> 3304557, casos_confirmados |-> n])

\* The table an earlier run left behind, or none.
InitialTables == {NoTable, Keyed(Written(<<CleanRow(<<2023, 1, 2>>, "Niteroi", 7)>>))}

\* DataFrames a direct caller hands to carregar_dados.
LoadRows == {CleanRow(dt, c, 10) : dt \in {<<2023, 1, 2>>, <<2023, 1, 1>>}, c \in Cities}

LoadFrames == {None} \cup {DataFrame(rs) : rs \in SeqsUpTo(LoadRows, MaxRows)}

\* ALTER TABLE ... ADD PRIMARY KEY (codigo_ibge, data_notificacao) can only
\* succeed on rows whose key values are distinct and not null.
ChaveUnica(rs) ==
    /\ \A i, j \in 1..Len(rs) :
          (rs[i].codigo_ibge = rs[j].codigo_ibge
           /\ rs[i].data_notificacao = rs[j].data_notificacao) => i = j
    /\ \A i \in 1..Len(rs) : rs[i].data_notificacao # NaT

----------------------------------------------------------------------------
\* State

Init ==
    /\ env \in [ConfigNames -> EnvValues]
    /\ pc = "start"
    /\ caller = "none"
    /\ dados_brutos = None
    /\ dados_tratados = None
    /\ carga_df = None
    /\ exc = "none"
    /\ log = <<>>
    /\ table0 \in InitialTables
    /\ table = table0
    /\ held = {}
    /\ opened = 0
    /\ writeConn = NoConn
    /\ pkConn = NoConn
    /\ http = 0
    /\ cargaCalled = FALSE
    /\ pending = "none"
    /\ pkFailed = FALSE

Logged(line) == log' = Append(log, line)

db == <<table, held, opened, writeConn, pkConn, pending, pkFailed>>

----------------------------------------------------------------------------
\* Module level: configuration

\* The validation with any([...]) in place of all([...]).
ConfigOk_any(e) == \E n \in ConfigNames : Truthy(e[n])

\* all([DB_HOST, DB_DATABASE, DB_USER, DB_PASSWORD])
ConfigOk(e) == \A n \in ConfigNames : Truthy(e[n])

\* load_dotenv, the four os.getenv and the validation; exit() on failure.
ConfigCheck ==
    /\ pc = "start"
    /\ IF ConfigOk(env)
       THEN pc' = "ready" /\ Logged("Ambiente configurado com sucesso")
       ELSE pc' = "exited" /\ Logged("Erro: Variaveis de ambiente")
    /\ UNCHANGED <<env, caller, dados_brutos, dados_tratados, carga_df, exc,
                   table0, http, cargaCalled>>
    /\ UNCHANGED db

----------------------------------------------------------------------------
\* __main__

MainStart ==
    /\ pc = "ready"
    /\ pc' = "extract"
    /\ caller' = "main"
    /\ Logged("INICIANDO PIPELINE")
    /\ UNCHANGED <<env, dados_brutos, dados_tratados, carga_df, exc, table0,
                   http, cargaCalled>>
    /\ UNCHANGED db

\* extrair_dados: the GET succeeds and read_csv parses the body.
ExtrairOk ==
    /\ pc = "extract"
    /\ \E df \in RawFrames : dados_brutos' = df
    /\ http' = http + 1
    /\ pc' = "transform"
    /\ Logged("Dados extraidos")
    /\ UNCHANGED <<env, caller, dados_tratados, carga_df, exc, table0, cargaCalled>>
    /\ UNCHANGED db

\* extrair_dados: requests.get or raise_for_status raises RequestException.
ExtrairRequestException ==
    /\ pc = "extract"
    /\ dados_brutos' = None
    /\ http' = http + 1
    /\ pc' = "transform"
    /\ Logged("Falha na requisicao HTTP")
    /\ UNCHANGED <<env, caller, dados_tratados, carga_df, exc, table0, cargaCalled>>
    /\ UNCHANGED db

\* extrair_dados: read_csv raises on the body of the response.
ExtrairException ==
    /\ pc = "extract"
    /\ dados_brutos' = None
    /\ http' = http + 1
    /\ pc' = "transform"
    /\ Logged("Falha ao processar os dados extraidos")
    /\ UNCHANGED <<env, caller, dados_tratados, carga_df, exc, table0, cargaCalled>>
    /\ UNCHANGED db

\* dados_tratados = transformar_dados(dados_brutos); an exception that
\* escapes it ends the process.
Transformar ==
    /\ pc = "transform"
    /\ LET r == transformar_dados(dados_brutos)
       IN  IF r.exc # "none"
           THEN pc' = "aborted" /\ exc' = r.exc /\ UNCHANGED dados_tratados
           ELSE pc' = "load" /\ dados_tratados' = r.df /\ UNCHANGED exc
    /\ log' = log \o transformar_dados(dados_brutos).log
    /\ UNCHANGED <<env, caller, dados_brutos, carga_df, table0, http, cargaCalled>>
    /\ UNCHANGED db

\* if dados_tratados is not None: carregar_dados(...) else: warning
MainCarga ==
    /\ pc = "load"
    /\ IF ~dados_tratados.isNone
       THEN /\ pc' = "carga_entry"
            /\ carga_df' = dados_tratados
            /\ cargaCalled' = TRUE
            /\ UNCHANGED log
       ELSE /\ pc' = "final"
            /\ Logged("Pipeline encerrado pois nao ha dados tratados")
            /\ UNCHANGED <<carga_df, cargaCalled>>
    /\ UNCHANGED <<env, caller, dados_brutos, dados_tratados, exc, table0, http>>
    /\ UNCHANGED db

MainFinal ==
    /\ pc = "final"
    /\ pc' = "done"
    /\ Logged("PIPELINE DE DADOS FINALIZADO!")
    /\ UNCHANGED <<env, caller, dados_brutos, dados_tratados, carga_df, exc,
                   table0, http, cargaCalled>>
    /\ UNCHANGED db

----------------------------------------------------------------------------
\* carregar_dados

\* A direct call of carregar_dados(df, nome_tabela).
CallCarregarDados ==
    /\ pc = "ready"
    /\ \E df \in LoadFrames : carga_df' = df
    /\ caller' = "direct"
    /\ cargaCalled' = TRUE
    /\ pc' = "carga_entry"
    /\ UNCHANGED <<env, dados_brutos, dados_tratados, exc, log, table0, http>>
    /\ UNCHANGED db

\* The guard without its df.empty test.
SemCarga_so_None(df) == df.isNone

\* if df is None or df.empty
SemCarga(df) == df.isNone \/ empty(df)

CargaGuard ==
    /\ pc = "carga_entry"
    /\ IF SemCarga(carga_df)
       THEN pc' = "carga_return" /\ Logged("DataFrame transformado esta vazio")
       ELSE pc' = "carga_connect" /\ Logged("Iniciando a carga de dados")
    /\ UNCHANGED <<env, caller, dados_brutos, dados_tratados, carga_df, exc,
                   table0, http, cargaCalled>>
    /\ UNCHANGED db

\* create_engine and engine.connect() succeed: the with block is entered.
CargaConnectOk ==
    /\ pc = "carga_connect"
    /\ held' = held \cup {WithConn}
    /\ opened' = opened + 1
    /\ pc' = "carga_to_sql"
    /\ Logged("Conexao com o banco de dados MariaDB estabelecida")
    /\ UNCHANGED <<env, caller, dados_brutos, dados_tratados, carga_df, exc,
                   table0, http, cargaCalled, table, writeConn, pkConn,
                   pending, pkFailed>>

\* create_engine or engine.connect() raises.
CargaConnectFail ==
    /\ pc = "carga_connect"
    /\ pc' = "carga_except"
    /\ UNCHANGED <<env, caller, dados_brutos, dados_tratados, carga_df, exc,
                   log, table0, http, cargaCalled>>
    /\ UNCHANGED db

\* df.to_sql(con=engine, ...): handed the engine, pandas checks out a
\* connection of its own from it for the write.
ToSqlBegin ==
    /\ pc = "carga_to_sql"
    /\ held' = held \cup {ToSqlConn}
    /\ opened' = opened + 1
    /\ pc' = "carga_writing"
    /\ UNCHANGED <<env, caller, dados_brutos, dados_tratados, carga_df, exc,
                   log, table0, http, cargaCalled, table, writeConn, pkConn,
                   pending, pkFailed>>

\* pandas cannot check out its connection.
ToSqlConnectFail ==
    /\ pc = "carga_to_sql"
    /\ pending' = "error"
    /\ pc' = "carga_with_exit"
    /\ UNCHANGED <<env, caller, dados_brutos, dados_tratados, carga_df, exc,
                   log, table0, http, cargaCalled, table, held, opened,
                   writeConn, pkConn, pkFailed>>

\* if_exists='replace': the table is dropped, created again and filled,
\* the write is committed and the connection of pandas released.
ToSqlOk ==
    /\ pc = "carga_writing"
    /\ table' = Written(carga_df.rows)
    /\ writeConn' = ToSqlConn
    /\ held' = held \ {ToSqlConn}
    /\ pc' = "carga_alter"
    /\ UNCHANGED <<env, caller, dados_brutos, dados_tratados, carga_df, exc,
                   log, table0, http, cargaCalled, opened, pkConn, pending,
                   pkFailed>>

\* The write fails: before the drop, after it, or after the table was
\* created again (the inserts are rolled back, the DDL is not).
ToSqlFail ==
    /\ pc = "carga_writing"
    /\ table' \in {table, NoTable, Written(<<>>)}
    /\ held' = held \ {ToSqlConn}
    /\ pending' = "error"
    /\ pc' = "carga_with_exit"
    /\ UNCHANGED <<env, caller, dados_brutos, dados_tratados, carga_df, exc,
                   log, table0, http, cargaCalled, opened, writeConn, pkConn,
                   pkFailed>>

\* The table after a failed ALTER TABLE, had the write been rolled back.
AlterFail_rollback(t) == table0

\* The table after a failed ALTER TABLE: as the write left it.
AlterFail_table(t) == t

\* connection.execute(text(query_pk)) succeeds.
AlterOk ==
    /\ pc = "carga_alter"
    /\ ChaveUnica(table.rows)
    /\ table' = Keyed(table)
    /\ pkConn' = WithConn
    /\ pc' = "carga_with_exit"
    /\ Logged("Chave primaria adicionada")
    /\ UNCHANGED <<env, caller, dados_brutos, dados_tratados, carga_df, exc,
                   table0, http, cargaCalled, held, opened, writeConn,
                   pending, pkFailed>>

\* connection.execute(text(query_pk)) raises: a repeated or null key, or
\* any failure of the database.
AlterFail ==
    /\ pc = "carga_alter"
    /\ table' = AlterFail_table(table)
    /\ pkConn' = WithConn
    /\ pkFailed' = TRUE
    /\ pending' = "error"
    /\ pc' = "carga_with_exit"
    /\ UNCHANGED <<env, caller, dados_brutos, dados_tratados, carga_df, exc,
                   log, table0, http, cargaCalled, held, opened, writeConn>>

\* The with block is left, normally or by an exception: the connection is
\* closed either way.
WithExit ==
    /\ pc = "carga_with_exit"
    /\ held' = held \ {WithConn}
    /\ IF pending = "error"
       THEN pc' = "carga_except" /\ UNCHANGED log
       ELSE pc' = "carga_return" /\ Logged("Carga concluida com sucesso")
    /\ UNCHANGED <<env, caller, dados_brutos, dados_tratados, carga_df, exc,
                   table0, http, cargaCalled, table, opened, writeConn,
                   pkConn, pending, pkFailed>>

\* except Exception as e: logging.error(...)
CargaExcept ==
    /\ pc = "carga_except"
    /\ pc' = "carga_return"
    /\ Logged("Falha ao carregar os dados no banco de dados")
    /\ UNCHANGED <<env, caller, dados_brutos, dados_tratados, carga_df, exc,
                   table0, http, cargaCalled>>
    /\ UNCHANGED db

\* carregar_dados returns to its caller.
CargaReturn ==
    /\ pc = "carga_return"
    /\ pc' = IF caller = "main" THEN "final" ELSE "done"
    /\ UNCHANGED <<env, caller, dados_brutos, dados_tratados, carga_df, exc,
                   log, table0, http, cargaCalled>>
    /\ UNCHANGED db

----------------------------------------------------------------------------

Next ==
    \/ ConfigCheck
    \/ MainStart
    \/ ExtrairOk
    \/ ExtrairRequestException
    \/ ExtrairException
    \/ Transformar
    \/ MainCarga
    \/ MainFinal
    \/ CallCarregarDados
    \/ CargaGuard
    \/ CargaConnectOk
    \/ CargaConnectFail
    \/ ToSqlBegin
    \/ ToSqlConnectFail
    \/ ToSqlOk
    \/ ToSqlFail
    \/ AlterOk
    \/ AlterFail
    \/ WithExit
    \/ CargaExcept
    \/ CargaReturn

Spec == Init /\ [][Next]_vars

----------------------------------------------------------------------------
\* Properties

\* The raw rows of the target region.
LinhasRJ(df) == SelectSeq(df.rows, LAMBDA r : r.state = "RJ")

\* The __main__ run is past the call of transformar_dados.
PosTransformacao == caller = "main" /\ pc \notin {"extract", "transform"}

\* carregar_dados has returned, or the process is over.
PosCarga == pc \in {"carga_return", "final", "done"}

InLog(line) == \E i \in 1..Len(log) : log[i] = line

\* The raw dataset has an RJ row and every RJ row has a coercible
\* codigo_ibge and casos_confirmados.
Processavel(df) ==
    /\ ~df.isNone
    /\ Len(LinhasRJ(df)) > 0
    /\ \A i \in 1..Len(LinhasRJ(df)) :
          LinhasRJ(df)[i].city_ibge_code.ok /\ LinhasRJ(df)[i].cases.ok

\* C3: on a non-empty raw input with at least one RJ row whose RJ rows are
\* all coercible, transformar_dados returns a dataset; every row of it
\* stems from an RJ row of the input, and its ano, mes and
\* semana_epidemiologica are the year, the month and the ISO-8601 week of
\* its data_notificacao.
C3_DerivaSemanaISO ==
    (PosTransformacao /\ Processavel(dados_brutos)) =>
        /\ exc = "none"
        /\ ~dados_tratados.isNone
        /\ \A i \in 1..Len(dados_tratados.rows) :
              LET r == dados_tratados.rows[i]
              IN  /\ \E j \in 1..Len(LinhasRJ(dados_brutos)) :
                        LET b == LinhasRJ(dados_brutos)[j]
                        IN  /\ r.cidade = b.city
                            /\ r.codigo_ibge = b.city_ibge_code.v
                            /\ r.casos_confirmados = b.cases.v
                            /\ r.data_notificacao = to_datetime(b.date)
                  /\ r.ano = r.data_notificacao.y
                  /\ r.mes = r.data_notificacao.m
                  /\ r.semana_epidemiologica = IsoWeek(r.data_notificacao)

\* The raw dataset is absent, empty, or holds no RJ row.
SemRJ(df) == df.isNone \/ Len(LinhasRJ(df)) = 0

\* C4: in a run whose raw dataset is absent, empty or without an RJ row,
\* transformar_dados returns None, carregar_dados is never called, no
\* connection is opened, the table stays as it was, and the run is neither
\* aborted nor stuck before it has logged the final line of the pipeline.
C4_SemDadosNaoCarrega ==
    (PosTransformacao /\ SemRJ(dados_brutos)) =>
        /\ pc \in {"load", "final", "done"}
        /\ exc = "none"
        /\ dados_tratados.isNone
        /\ ~cargaCalled
        /\ opened = 0
        /\ held = {}
        /\ table = table0
        /\ (pc = "done" => log[Len(log)] = "PIPELINE DE DADOS FINALIZADO!")
        /\ (pc # "done" => ENABLED Next)

C4_Witness ==
    /\ pc = "done"
    /\ caller = "main"
    /\ ~dados_brutos.isNone
    /\ Len(dados_brutos.rows) = 2
    /\ SemRJ(dados_brutos)
    /\ table0.exists
    /\ log[Len(log)] = "PIPELINE DE DADOS FINALIZADO!"

\* C5: an exception escapes a stage function only as a failed integer
\* coercion of codigo_ibge or casos_confirmados in transformar_dados.
C5_SoCoercaoEscapa ==
    exc # "none" => (exc = "ValueError" /\ ~Processavel(dados_brutos))

\* C6: when one of DB_HOST, DB_DATABASE, DB_USER, DB_PASSWORD is missing or
\* empty, the process exits at the configuration check: no HTTP request, no
\* stage, no connection, and the table stays as it was.
C6_ConfigAusenteAborta ==
    (\E n \in ConfigNames : env[n] \in {"None", ""}) =>
        /\ pc \in {"start", "exited"}
        /\ caller = "none"
        /\ http = 0
        /\ dados_brutos.isNone
        /\ dados_tratados.isNone
        /\ ~cargaCalled
        /\ opened = 0
        /\ held = {}
        /\ table = table0

C6_Witness ==
    /\ pc = "exited"
    /\ env["DB_PASSWORD"] = ""
    /\ \A n \in ConfigNames \ {"DB_PASSWORD"} : env[n] = "v"
    /\ http = 0

NaoCoercivel(df) ==
    /\ ~df.isNone
    /\ \E i \in 1..Len(LinhasRJ(df)) :
          ~LinhasRJ(df)[i].city_ibge_code.ok \/ ~LinhasRJ(df)[i].cases.ok

\* C8: when an RJ row has a codigo_ibge or casos_confirmados that does not
\* coerce, the run aborts on the coercion failure, whatever the other rows
\* are and whatever the date and count of the offending row: no dataset,
\* no call of carregar_dados, no connection, the table as it was.
C8_CoercaoAbortaRun ==
    (PosTransformacao /\ NaoCoercivel(dados_brutos)) =>
        /\ pc = "aborted"
        /\ exc = "ValueError"
        /\ dados_tratados.isNone
        /\ ~cargaCalled
        /\ opened = 0
        /\ table = table0

C8_Witness ==
    /\ pc = "aborted"
    /\ exc = "ValueError"
    /\ Len(dados_brutos.rows) = 2
    /\ Processavel(DataFrame(<<dados_brutos.rows[1]>>))
    /\ dados_brutos.rows[2].state = "RJ"
    /\ ~dados_brutos.rows[2].city_ibge_code.ok
    /\ dados_brutos.rows[2].cases = Num(-3)
    /\ to_datetime(dados_brutos.rows[2].date) = NaT

TodasDescartadas(df) ==
    /\ Processavel(df)
    /\ \A i \in 1..Len(LinhasRJ(df)) :
          to_datetime(LinhasRJ(df)[i].date) = NaT \/ LinhasRJ(df)[i].cases.v < 0

====
